---- MODULE Spec2Model ----
(***************************************************************************)
(* Model of the signal engine (strategy/advanced_signal_engine.py), its    *)
(* configuration (strategy/signal_config.py), the monitor daemon           *)
(* (strategy/signal_monitor.py) and the market calendar of the scheduler   *)
(* (data_ingestion/automated_scheduler.py).                                *)
(*                                                                         *)
(* Time is counted in ticks since Monday 00:00 of the market timezone.     *)
(* Scores are exact rationals kept as numerators over ScoreDen; PCR values *)
(* and the confidence threshold are kept in hundredths.                    *)
(***************************************************************************)
EXTENDS Integers, Sequences, FiniteSets, TLC

VARIABLES
    now,             \* wall clock, ticks since Monday 00:00
    boot,            \* instant at which the process was constructed
    config,          \* SignalConfig, read once per process
    active_signals,  \* AdvancedSignalEngine.active_signals (dict, as a set of keyed entries)
    signal_history,  \* AdvancedSignalEngine.signal_history (list of emission times)
    last_signals,    \* AdvancedSignalEngine.last_signals (dict kind -> time, NoTime = absent)
    emitted,         \* history: generation times of every signal generate_signals returned
    cleared,         \* history: kinds whose entry a cleanup removed and no track re-created
    last,            \* history: the operation that produced this state and what it returned
    sched_config,    \* data_pipeline.pre_market_fetch / post_market_fetch of the scheduler
    consecutive_failures,   \* AutomatedScheduler.consecutive_failures
    last_successful_fetch,  \* AutomatedScheduler.last_successful_fetch (NoTime = None)
    reader,          \* a thread other than the worker, inside get_signal_status
    running,         \* SignalMonitor.running
    monitor_thread,  \* SignalMonitor.monitor_thread (0 = None)
    main_pc,         \* position of the thread that calls start() and stop()
    wpc,             \* position of each monitor worker thread
    sleep_left,      \* remaining one-second waits of each worker's _safe_sleep
    cycle_count,     \* SignalMonitor.cycle_count
    errors_count,    \* SignalMonitor.errors_count
    observed_stop,   \* history: workers whose _safe_sleep saw running = False and broke out
    signals_sent,    \* SignalMonitor.signals_sent
    settings,        \* values of settings.yaml read by SignalConfig._load_signal_config
    signal_cfg,      \* the SignalConfig object: construction outcome, attributes, cycles run
    retry,           \* one call of AutomatedScheduler.fetch_nifty_data_with_retry
    telegram         \* one call of send_telegram_message

engineVars == <<config, active_signals, signal_history, last_signals, emitted, cleared>>
schedVars == <<sched_config, consecutive_failures, last_successful_fetch>>
readVars == <<reader>>
monVars == <<running, monitor_thread, main_pc, wpc, sleep_left, cycle_count, errors_count,
            observed_stop>>
ioVars == <<signals_sent, settings, signal_cfg, retry, telegram>>
vars == <<now, boot, engineVars, last, schedVars, readVars, monVars, ioVars>>

----------------------------------------------------------------------------
(* Bounds of the model *)

TicksPerHour == 4
MaxElapsed == 4
MaxWorkers == 2
MaxCycles == 3
MaxErrors == 2
MaxRetries == 3
MaxSent == 2
MaxFailures == 3

(* Program constants: defaults of SignalConfig, PCR in hundredths *)
pcr_buy_ce_max == 70
pcr_buy_pe_min == 130
rsi_oversold_max == 30
rsi_oversold_recovery == 50
rsi_overbought_min == 70
rsi_overbought_decline == 50
oi_significant_change_pct == 15
oi_min_level == 10000

----------------------------------------------------------------------------
(* Calendar helpers *)

TicksPerDay == 24 * TicksPerHour
OneHour == TicksPerHour
Weekday(t) == (t \div TicksPerDay) % 7          \* Monday = 0 ... Sunday = 6
TimeOfDay(t) == t % TicksPerDay
At(d, h, q) == d * TicksPerDay + h * TicksPerHour + q

\* market_hours.start_time '09:15' and end_time '15:30' as time of day
market_start_time == 9 * TicksPerHour + TicksPerHour \div 4
market_end_time == 15 * TicksPerHour + TicksPerHour \div 2

Min(a, b) == IF a <= b THEN a ELSE b
Max(a, b) == IF a >= b THEN a ELSE b

----------------------------------------------------------------------------
(* SignalConfig *)

Kinds == {"BUY_CE", "BUY_PE"}
NoTime == -1

BaseConfig ==
    [enabled |-> TRUE, market_hours_only |-> TRUE, enable_signal_renewal |-> TRUE,
     confidence_threshold |-> 70, max_signals_per_hour |-> 2,
     signal_cooldown_minutes |-> 1, signal_expiry_buffer_seconds |-> 1,
     monitoring_interval_seconds |-> 2]

Configs ==
    { BaseConfig,
      [BaseConfig EXCEPT !.confidence_threshold = 50],
      [BaseConfig EXCEPT !.enable_signal_renewal = FALSE, !.confidence_threshold = 50],
      [BaseConfig EXCEPT !.market_hours_only = FALSE],
      [BaseConfig EXCEPT !.enabled = FALSE] }

\* the time-of-day test is skipped
is_market_hours_always(cfg, t) == TRUE

\* SignalConfig.is_market_hours: compares the time of day only
is_market_hours(cfg, t) ==
    IF ~cfg.market_hours_only THEN TRUE
    ELSE market_start_time <= TimeOfDay(t) /\ TimeOfDay(t) <= market_end_time

is_pcr_bullish(pcr) == pcr <= pcr_buy_ce_max
\* the bearish test compares with the bullish threshold
is_pcr_bearish_at_ce_max(pcr) == pcr >= pcr_buy_ce_max

is_pcr_bearish(pcr) == pcr >= pcr_buy_pe_min

is_rsi_oversold_recovery(cur, prev) ==
    prev <= rsi_oversold_max /\ cur > rsi_oversold_max /\ cur <= rsi_oversold_recovery

is_rsi_overbought_decline(cur, prev) ==
    prev >= rsi_overbought_min /\ cur < rsi_overbought_min /\ cur >= rsi_overbought_decline

Abs(x) == IF x < 0 THEN -x ELSE x
is_oi_change_significant(pct) == Abs(pct) >= oi_significant_change_pct
is_oi_level_sufficient(level) == level >= oi_min_level

----------------------------------------------------------------------------
(* Market snapshots fed to the engine *)

Snap(p, c, pr, cc, pc, ct, pt) ==
    [pcr |-> p, rsi_cur |-> c, rsi_prev |-> pr, ce_oi_change_pct |-> cc,
     pe_oi_change_pct |-> pc, ce_oi_total |-> ct, pe_oi_total |-> pt]

NoData == [pcr |-> -1]

Snapshots ==
    { Snap(50, 45, 28, 20, -5, 50000, 50000),     \* bullish on all three
      Snap(50, 48, 45, 5, -5, 50000, 50000),      \* bullish, partial credits
      Snap(50, 60, 75, 20, 20, 50000, 50000),     \* mixed: both directions corroborated
      Snap(150, 60, 75, -5, 20, 50000, 50000),    \* bearish on all three
      Snap(100, 50, 50, -5, -5, 50000, 50000),    \* neutral
      Snap(50, 45, 28, -5, -5, 50000, 50000),     \* bullish without participation
      Snap(0, 45, 28, 20, 20, 50000, 50000) }     \* PCR computed as 0

----------------------------------------------------------------------------
(* SignalScorer: _evaluate_ce_conditions / _evaluate_pe_conditions *)

ScoreDen == 20 * pcr_buy_ce_max * pcr_buy_pe_min

\* the first assignment of the PCR component stands: 1.0 whenever PCR is bullish
CEComponentsFirstAssignment(s) ==
    [pcr |-> IF is_pcr_bullish(s.pcr) THEN ScoreDen ELSE 0,
     rsi |-> IF is_rsi_oversold_recovery(s.rsi_cur, s.rsi_prev) THEN ScoreDen
             ELSE IF s.rsi_cur <= rsi_oversold_recovery /\ s.rsi_cur > s.rsi_prev
                  THEN (6 * ScoreDen) \div 10
                  ELSE 0,
     oi  |-> IF s.ce_oi_change_pct > 0 /\ is_oi_change_significant(s.ce_oi_change_pct)
                /\ is_oi_level_sufficient(s.ce_oi_total)
             THEN ScoreDen
             ELSE IF s.ce_oi_change_pct > 0 THEN ScoreDen \div 2 ELSE 0]

CEComponents(s) ==
    [pcr |-> IF is_pcr_bullish(s.pcr)
             THEN Min(ScoreDen, ScoreDen \div 2
                       + Max(0, (ScoreDen * (pcr_buy_ce_max - s.pcr)) \div pcr_buy_ce_max))
             ELSE 0,
     rsi |-> IF is_rsi_oversold_recovery(s.rsi_cur, s.rsi_prev) THEN ScoreDen
             ELSE IF s.rsi_cur <= rsi_oversold_recovery /\ s.rsi_cur > s.rsi_prev
                  THEN (6 * ScoreDen) \div 10
                  ELSE 0,
     oi  |-> IF s.ce_oi_change_pct > 0 /\ is_oi_change_significant(s.ce_oi_change_pct)
                /\ is_oi_level_sufficient(s.ce_oi_total)
             THEN ScoreDen
             ELSE IF s.ce_oi_change_pct > 0 THEN ScoreDen \div 2 ELSE 0]

PEComponents(s) ==
    [pcr |-> IF is_pcr_bearish(s.pcr)
             THEN Min(ScoreDen, ScoreDen \div 2
                       + (ScoreDen * (s.pcr - pcr_buy_pe_min)) \div pcr_buy_pe_min)
             ELSE 0,
     rsi |-> IF is_rsi_overbought_decline(s.rsi_cur, s.rsi_prev) THEN ScoreDen
             ELSE IF s.rsi_cur >= rsi_overbought_decline /\ s.rsi_cur < s.rsi_prev
                  THEN (6 * ScoreDen) \div 10
                  ELSE 0,
     oi  |-> IF s.pe_oi_change_pct > 0 /\ is_oi_change_significant(s.pe_oi_change_pct)
                /\ is_oi_level_sufficient(s.pe_oi_total)
             THEN ScoreDen
             ELSE IF s.pe_oi_change_pct > 0 THEN ScoreDen \div 2 ELSE 0]

\* a component counts as met when it is not negative
ConditionsMetNonNegative(c) ==
    (IF c.pcr >= 0 THEN 1 ELSE 0) + (IF c.rsi >= 0 THEN 1 ELSE 0) + (IF c.oi >= 0 THEN 1 ELSE 0)

ConditionsMet(c) ==
    (IF c.pcr > 0 THEN 1 ELSE 0) + (IF c.rsi > 0 THEN 1 ELSE 0) + (IF c.oi > 0 THEN 1 ELSE 0)

\* confidence_score = mean of the components = ScoreSum / (3 * ScoreDen)
ScoreSum(c) == c.pcr + c.rsi + c.oi

\* HIGH is given from 0.7, the default confidence threshold, instead of 0.8
SignalStrengthLowHigh(sum) ==
    IF 10 * sum >= 7 * 3 * ScoreDen THEN "HIGH"
    ELSE IF 10 * sum >= 6 * 3 * ScoreDen THEN "MEDIUM"
    ELSE "LOW"

SignalStrength(sum) ==
    IF 10 * sum >= 8 * 3 * ScoreDen THEN "HIGH"
    ELSE IF 10 * sum >= 6 * 3 * ScoreDen THEN "MEDIUM"
    ELSE "LOW"

MakeSignal(kind, c, t, cfg) ==
    [signal_type |-> kind, components |-> c, confidence_sum |-> ScoreSum(c),
     signal_strength |-> SignalStrength(ScoreSum(c)), generated_at |-> t,
     validity_minutes |-> cfg.signal_cooldown_minutes]

----------------------------------------------------------------------------
(* SignalLifecycleStore: the active-signal table *)

Keys(A) == {e.signal_type : e \in A}

\* a dict insert appends a second entry instead of replacing the key's entry
DictPutNoReplace(A, e) == A \cup {e}

\* self.active_signals[signal_type] = {...}
DictPut(A, e) == {x \in A : x.signal_type # e.signal_type} \cup {e}

track_entry(A, sig) ==
    DictPut(A, [signal_type |-> sig.signal_type,
                generated_at |-> sig.generated_at,
                expiry_time |-> sig.generated_at + sig.validity_minutes,
                validity_minutes |-> sig.validity_minutes])

\* the buffer is left out of the expiry comparison
ClearExpiredNoBuffer(A, t, cfg) ==
    {e \in A : ~(t >= e.expiry_time)}

\* the deletion stops after the first expired key
ClearExpiredFirstOnly(A, t, cfg) ==
    LET expired == {e \in A : t >= e.expiry_time + cfg.signal_expiry_buffer_seconds}
    IN IF expired = {} THEN A
       ELSE A \ {CHOOSE e \in expired : \A x \in expired : e.generated_at <= x.generated_at}

\* the expiry comparison is strict, so an entry survives the instant expiry + buffer
ClearExpiredStrict(A, t, cfg) ==
    {e \in A : ~(t > e.expiry_time + cfg.signal_expiry_buffer_seconds)}

ClearExpired(A, t, cfg) ==
    {e \in A : ~(t >= e.expiry_time + cfg.signal_expiry_buffer_seconds)}

\* table after is_signal_active: the cleanup runs only when the key is present
IsSignalActiveTable(A, k, t, cfg) ==
    IF k \notin Keys(A) THEN A ELSE ClearExpired(A, t, cfg)

\* the membership test of the early return is inverted
IsSignalActiveInverted(A, k, t, cfg) ==
    IF k \in Keys(A) THEN FALSE ELSE TRUE

\* value returned by is_signal_active
IsSignalActiveRet(A, k, t, cfg) ==
    IF k \notin Keys(A) THEN FALSE ELSE k \in Keys(ClearExpired(A, t, cfg))

\* value returned by is_signal_expired: the comparison carries no buffer
IsSignalExpiredRet(A, k, t) ==
    IF k \notin Keys(A) THEN TRUE
    ELSE \E e \in A : e.signal_type = k /\ t >= e.expiry_time

----------------------------------------------------------------------------
(* RateLimiter / Cooldown *)

check_signal_cooldown(L, k, t, cfg) ==
    IF L[k] = NoTime THEN TRUE ELSE t - L[k] >= cfg.signal_cooldown_minutes

RECURSIVE PruneHistory(_, _)
PruneHistory(h, t) ==
    IF h = <<>> THEN <<>>
    ELSE IF Head(h) > t - OneHour THEN <<Head(h)>> \o PruneHistory(Tail(h), t)
         ELSE PruneHistory(Tail(h), t)

check_rate_limits(h, t, cfg) == Len(PruneHistory(h, t)) < cfg.max_signals_per_hour

----------------------------------------------------------------------------
(* SignalEngine *)

\* the gate always takes the cooldown branch, also in renewal mode
GateOpenCooldownOnly(A, L, k, t, cfg) == check_signal_cooldown(L, k, t, cfg)

\* both gates are applied, whatever the mode
GateOpenBoth(A, L, k, t, cfg) ==
    ~IsSignalActiveRet(A, k, t, cfg) /\ check_signal_cooldown(L, k, t, cfg)

\* first lines of _evaluate_*_conditions: may a candidate of kind k be scored?
GateOpen(A, L, k, t, cfg) ==
    IF cfg.enable_signal_renewal
    THEN ~IsSignalActiveRet(A, k, t, cfg)
    ELSE check_signal_cooldown(L, k, t, cfg)

ComponentsOf(k, s) == IF k = "BUY_CE" THEN CEComponents(s) ELSE PEComponents(s)

\* _evaluate_ce_conditions / _evaluate_pe_conditions: the candidate of kind k, if any
Evaluate(k, A, L, s, t, cfg) ==
    IF GateOpen(A, L, k, t, cfg) /\ ConditionsMet(ComponentsOf(k, s)) >= 2
    THEN {MakeSignal(k, ComponentsOf(k, s), t, cfg)}
    ELSE {}

\* _analyze_market_conditions: the candidates of one cycle
Candidates(A, L, s, t, cfg) ==
    IF s.pcr = 0 THEN {}
    ELSE UNION {Evaluate(k, A, L, s, t, cfg) : k \in Kinds}

\* an exception of save_trading_signal leaves _save_signal_to_database
save_signal_raises_uncaught(o) == o = "raised"

\* _save_signal_to_database: does an exception leave the method? `except Exception`
\* catches whatever save_trading_signal raises, and a False result is only logged
save_signal_raises(o) == FALSE

\* the confidence filter is left out
ValidSignalsUnfiltered(cands, cfg) == cands

ValidSignals(cands, cfg) ==
    {c \in cands : 100 * c.confidence_sum >= cfg.confidence_threshold * 3 * ScoreDen}

\* the tracking loop over valid_signals, BUY_CE before BUY_PE
RECURSIVE TrackAll(_, _)
TrackAll(A, sigs) ==
    IF sigs = <<>> THEN A ELSE TrackAll(track_entry(A, Head(sigs)), Tail(sigs))

InOrder(S) ==
    (IF \E c \in S : c.signal_type = "BUY_CE"
     THEN <<CHOOSE c \in S : c.signal_type = "BUY_CE">> ELSE <<>>)
    \o (IF \E c \in S : c.signal_type = "BUY_PE"
        THEN <<CHOOSE c \in S : c.signal_type = "BUY_PE">> ELSE <<>>)

RECURSIVE Times(_)
Times(sigs) == IF sigs = <<>> THEN <<>> ELSE <<Head(sigs).generated_at>> \o Times(Tail(sigs))

\* what save_trading_signal does: stores the row, returns False, or raises
SaveOutcomes == {"saved", "returned_false", "raised"}

\* what send_telegram_message does for one signal of _process_signals
DeliveryOutcomes == {"sent", "failed", "raised"}

Op(name, kind, flag, sigs, gated, had) ==
    [op |-> name, kind |-> kind, flag |-> flag, signals |-> sigs, gated |-> gated, had |-> had,
     scored |-> FALSE, candidates |-> {}, accepted |-> {}, snapshot |-> NoData, save |-> "-"]

----------------------------------------------------------------------------
(* SignalConfig construction: _load_signal_config, _validate_config and     *)
(* _set_defaults                                                            *)

default_signal_cooldown_minutes == 15
default_confidence_threshold == 70
default_max_signals_per_hour == 6
default_monitoring_interval_seconds == 120

\* values the signal_generation section of settings.yaml may hold; PCR thresholds and
\* the confidence threshold in hundredths
LoadedSettings ==
    [enabled : BOOLEAN,
     pcr_buy_ce_max : {70, 130, 150}, pcr_buy_pe_min : {130},
     rsi_oversold_max : {-5, 30, 60}, rsi_oversold_recovery : {50, 101},
     rsi_overbought_min : {40, 70}, rsi_overbought_decline : {50},
     confidence_threshold : {0, 70, 150},
     signal_cooldown_minutes : {-1, 15}, max_signals_per_hour : {0, 6}]

\* _validate_config: TRUE when no ValueError is raised
validate_config(a) ==
    /\ ~(a.pcr_buy_ce_max >= a.pcr_buy_pe_min)
    /\ (0 <= a.rsi_oversold_max /\ a.rsi_oversold_max < a.rsi_oversold_recovery
          /\ a.rsi_oversold_recovery <= 100)
    /\ (0 <= a.rsi_overbought_decline /\ a.rsi_overbought_decline < a.rsi_overbought_min
          /\ a.rsi_overbought_min <= 100)
    /\ (0 < a.confidence_threshold /\ a.confidence_threshold <= 100)
    /\ ~(a.signal_cooldown_minutes < 0)
    /\ ~(a.max_signals_per_hour <= 0)

\* _set_defaults
set_defaults ==
    [enabled |-> TRUE,
     pcr_buy_ce_max |-> pcr_buy_ce_max, pcr_buy_pe_min |-> pcr_buy_pe_min,
     rsi_oversold_max |-> rsi_oversold_max, rsi_oversold_recovery |-> rsi_oversold_recovery,
     rsi_overbought_min |-> rsi_overbought_min,
     rsi_overbought_decline |-> rsi_overbought_decline,
     confidence_threshold |-> default_confidence_threshold,
     signal_cooldown_minutes |-> default_signal_cooldown_minutes,
     max_signals_per_hour |-> default_max_signals_per_hour]

\* the `except Exception` branch logs the error and leaves the loaded attributes
load_signal_config_keeps_loaded(st) ==
    [state |-> "constructed", attrs |-> st, used_defaults |-> ~validate_config(st),
     cycles |-> 0]

\* _load_signal_config: the attributes are assigned from the settings and validated;
\* `except Exception` catches the ValueError of _validate_config and substitutes the
\* defaults, so the constructor returns normally in both cases
load_signal_config(st) ==
    IF validate_config(st)
    THEN [state |-> "constructed", attrs |-> st, used_defaults |-> FALSE, cycles |-> 0]
    ELSE [state |-> "constructed", attrs |-> set_defaults, used_defaults |-> TRUE,
          cycles |-> 0]

Unconstructed ==
    [state |-> "unconstructed", attrs |-> set_defaults, used_defaults |-> FALSE, cycles |-> 0]

----------------------------------------------------------------------------
(* Retry loops: AutomatedScheduler.fetch_nifty_data_with_retry and          *)
(* send_telegram_message                                                    *)

RECURSIVE Pow(_, _)
Pow(b, n) == IF n = 0 THEN 1 ELSE b * Pow(b, n - 1)

\* data_pipeline.retry_policy
RetryPolicies ==
    [max_retries : 0..MaxRetries, backoff_multiplier : {2, 3}, initial_delay : {1, 5}]

\* what one call of fetch_nifty_data does: a frame, None, or an exception
FetchOutcomes == {"data", "None", "exception"}

\* the exponent is the number of the next attempt
wait_time_next_attempt(policy, attempt) ==
    policy.initial_delay * Pow(policy.backoff_multiplier, attempt + 1)

\* wait_time = initial_delay * (backoff ** attempt)
wait_time(policy, attempt) ==
    policy.initial_delay * Pow(policy.backoff_multiplier, attempt)

RetryIdle ==
    [policy |-> [max_retries |-> 0, backoff_multiplier |-> 2, initial_delay |-> 1],
     pc |-> "idle", attempt |-> 0, calls |-> <<>>, sleeps |-> <<>>, result |-> FALSE]

\* arguments max_retries and retry_delay of send_telegram_message
TelegramCalls == [max_retries : 0..MaxRetries, retry_delay : {1, 3}]

\* what requests.post does: a response with a status code, or an exception
Responses == {"200", "429", "500", "ConnectionError", "Timeout"}

\* Retry-After header of a 429 response, 0 = no header
RetryAfterHeaders == {0, 7}

\* the backoff grows linearly with the attempt number
telegram_wait_time_linear(retry_delay, attempt) == retry_delay * 2 * attempt

\* wait_time = retry_delay * (2 ** attempt)
telegram_wait_time(retry_delay, attempt) == retry_delay * Pow(2, attempt)

\* response.headers.get('Retry-After', retry_delay * 2)
retry_after(header, retry_delay) == IF header = 0 THEN retry_delay * 2 ELSE header

TelegramIdle ==
    [max_retries |-> 0, retry_delay |-> 1, pc |-> "idle", attempt |-> 0,
     posts |-> <<>>, sleeps |-> <<>>, result |-> FALSE]

----------------------------------------------------------------------------
(* Initial state of the engine process *)

ValidityChoices == {BaseConfig.signal_cooldown_minutes, BaseConfig.signal_cooldown_minutes + 1}

BootInstants == { At(0, 8, 3), At(4, 14, 2), At(5, 10, 0) }

Workers == 1..MaxWorkers

\* AdvancedSignalEngine.__init__
EngineInit ==
    /\ active_signals = {}
    /\ signal_history = <<>>
    /\ last_signals = [k \in Kinds |-> NoTime]
    /\ emitted = <<>>
    /\ cleared = {}
    /\ last = Op("init", "-", FALSE, {}, {}, FALSE)

\* SignalMonitor.__init__
MonitorInit ==
    /\ running = FALSE
    /\ monitor_thread = 0
    /\ main_pc = "idle"
    /\ wpc = [w \in Workers |-> "unborn"]
    /\ sleep_left = [w \in Workers |-> 0]
    /\ cycle_count = 0
    /\ errors_count = 0
    /\ observed_stop = {}

SchedConfigs == [pre_market_fetch : BOOLEAN, post_market_fetch : BOOLEAN]

\* AutomatedScheduler.__init__
SchedulerInit ==
    /\ consecutive_failures = 0
    /\ last_successful_fetch = NoTime

\* no status query in progress
\* pc: position inside the query; size: the dict size the iterator was created with;
\* visited: keys the iterator has yielded; info: the entries copied so far;
\* count: the value computed for active_signals_count
ReaderIdle == [pc |-> "idle", size |-> 0, visited |-> {}, info |-> {}, count |-> 0]

ReaderInit == reader = ReaderIdle

\* nothing loaded, fetched or sent yet
IoInit ==
    /\ signals_sent = 0
    /\ settings = set_defaults
    /\ signal_cfg = Unconstructed
    /\ retry = RetryIdle
    /\ telegram = TelegramIdle

Init ==
    /\ boot \in BootInstants
    /\ now = boot
    /\ config \in Configs
    /\ sched_config = [pre_market_fetch |-> FALSE, post_market_fetch |-> FALSE]
    /\ SchedulerInit
    /\ ReaderInit
    /\ EngineInit
    /\ MonitorInit
    /\ IoInit

Tick ==
    /\ now - boot < MaxElapsed
    /\ now' = now + 1
    /\ last' = Op("tick", "-", FALSE, {}, {}, FALSE)
    /\ UNCHANGED <<boot, engineVars, schedVars, readVars, ioVars, monVars>>

\* direct call of track_active_signal with a signal stamped datetime.now() and a
\* validity_minutes of the caller's choice
track_active_signal(k, v) ==
    /\ active_signals' = track_entry(active_signals,
                            [signal_type |-> k, generated_at |-> now,
                             validity_minutes |-> v])
    /\ cleared' = cleared \ {k}
    /\ last' = Op("track_active_signal", k, TRUE, {}, {}, k \in Keys(active_signals))
    /\ UNCHANGED <<now, boot, config, signal_history, last_signals, emitted, schedVars, readVars, ioVars, monVars>>

clear_expired_signals ==
    /\ active_signals' = ClearExpired(active_signals, now, config)
    /\ cleared' = cleared \cup (Keys(active_signals) \ Keys(active_signals'))
    /\ last' = Op("clear_expired_signals", "-", FALSE, {}, {},
                  Keys(active_signals) # Keys(active_signals'))
    /\ UNCHANGED <<now, boot, config, signal_history, last_signals, emitted, schedVars, readVars, ioVars, monVars>>

is_signal_active(k) ==
    /\ active_signals' = IsSignalActiveTable(active_signals, k, now, config)
    /\ cleared' = cleared \cup (Keys(active_signals) \ Keys(active_signals'))
    /\ last' = Op("is_signal_active", k, IsSignalActiveRet(active_signals, k, now, config),
                  {}, {}, k \in Keys(active_signals))
    /\ UNCHANGED <<now, boot, config, signal_history, last_signals, emitted, schedVars, readVars, ioVars, monVars>>

generate_signals(s) ==
    IF ~config.enabled \/ ~is_market_hours(config, now)
    THEN /\ last' = Op("generate_signals", "-", FALSE, {}, {}, FALSE)
         /\ UNCHANGED <<now, boot, engineVars, schedVars, readVars, ioVars, monVars>>
    ELSE
      LET A1 == ClearExpired(active_signals, now, config)
          H1 == PruneHistory(signal_history, now)
          removed == Keys(active_signals) \ Keys(A1)
      IN IF ~check_rate_limits(signal_history, now, config) \/ s = NoData
         THEN /\ active_signals' = A1
              /\ signal_history' = H1
              /\ cleared' = cleared \cup removed
              /\ last' = Op("generate_signals", "-", FALSE, {}, {}, FALSE)
              /\ UNCHANGED <<now, boot, config, last_signals, emitted, schedVars, readVars, ioVars, monVars>>
         ELSE
           \E cands \in {Candidates(A1, last_signals, s, now, config)} :
           \E valid \in {ValidSignals(cands, config)} :
           \E o \in (IF valid = {} THEN {"-"} ELSE SaveOutcomes) :
               \* an exception that leaves the loop over valid_signals is caught by
               \* the outer `except Exception`, which returns []
           \E returned \in {IF valid # {} /\ save_signal_raises(o) THEN {} ELSE valid} :
               LET gated == {k \in Kinds : ~GateOpen(A1, last_signals, k, now, config)}
                   order == InOrder(returned)
               IN /\ active_signals' = TrackAll(A1, order)
                  /\ signal_history' = H1 \o Times(order)
                  /\ last_signals' = [k \in Kinds |->
                                        IF \E c \in returned : c.signal_type = k
                                        THEN now ELSE last_signals[k]]
                  /\ emitted' = emitted \o Times(order)
                  /\ cleared' = (cleared \cup removed) \ {c.signal_type : c \in returned}
                  /\ last' = [Op("generate_signals", "-", returned # {}, returned, gated,
                                 FALSE)
                                EXCEPT !.scored = TRUE, !.candidates = cands,
                                       !.accepted = valid, !.save = o]
                  /\ UNCHANGED <<now, boot, config, schedVars, readVars, ioVars, monVars>>

\* SignalMonitor._process_signals over the signals the cycle's generate_signals
\* returned: _send_signal for each, signals_sent counting the delivered ones
process_signals ==
    /\ last.op = "generate_signals"
    /\ last.signals # {}
    /\ \E d \in [{c.signal_type : c \in last.signals} -> DeliveryOutcomes] :
         LET delivered == {c \in last.signals : d[c.signal_type] = "sent"}
         IN /\ signals_sent + Cardinality(delivered) <= MaxSent
            /\ signals_sent' = signals_sent + Cardinality(delivered)
            /\ last' = [Op("process_signals", "-", delivered = last.signals, last.signals,
                           {}, FALSE)
                          EXCEPT !.accepted = last.accepted, !.save = last.save]
    /\ UNCHANGED <<now, boot, engineVars, schedVars, readVars, monVars, settings, signal_cfg, retry,
                   telegram>>

Next ==
    \/ Tick
    \/ \E k \in Kinds, v \in ValidityChoices : track_active_signal(k, v)
    \/ clear_expired_signals
    \/ \E k \in Kinds : is_signal_active(k)
    \/ \E s \in Snapshots \cup {NoData} : generate_signals(s)

Spec == Init /\ [][Next]_vars

----------------------------------------------------------------------------
(* The monitor's cycle on its own: generate_signals followed by             *)
(* _process_signals, with every outcome of persistence and delivery         *)

InitCycle ==
    /\ boot = At(0, 10, 0)
    /\ now = boot
    /\ config \in { BaseConfig,
                     [BaseConfig EXCEPT !.confidence_threshold = 50],
                     [BaseConfig EXCEPT !.enable_signal_renewal = FALSE,
                                        !.confidence_threshold = 50] }
    /\ sched_config = [pre_market_fetch |-> FALSE, post_market_fetch |-> FALSE]
    /\ SchedulerInit
    /\ ReaderInit
    /\ EngineInit
    /\ MonitorInit
    /\ IoInit

NextCycle ==
    \/ Tick
    \/ \E s \in Snapshots \cup {NoData} : generate_signals(s)
    \/ process_signals

SpecCycle == InitCycle /\ [][NextCycle]_vars

----------------------------------------------------------------------------
(* Status queries: is_signal_expired, get_active_signals and                *)
(* get_signal_status, called from a thread other than the monitor worker    *)
(* while the worker tracks and clears entries                               *)

is_signal_expired(k) ==
    /\ last' = Op("is_signal_expired", k, IsSignalExpiredRet(active_signals, k, now),
                  {}, {}, k \in Keys(active_signals))
    /\ UNCHANGED <<now, boot, engineVars, schedVars, readVars, ioVars, monVars>>

ReaderAtRest == reader.pc \in {"idle", "copied", "done", "failed"}

\* return self.active_signals.copy(): one dict.copy() call, no cleanup before it
get_active_signals ==
    /\ ReaderAtRest
    /\ reader' = [ReaderIdle EXCEPT !.pc = "copied", !.info = active_signals,
                                    !.count = Cardinality(active_signals)]
    /\ last' = Op("get_active_signals", "-", active_signals # {}, {}, {}, FALSE)
    /\ UNCHANGED <<now, boot, engineVars, schedVars, ioVars, monVars>>

\* get_signal_status up to `for ... in self.active_signals.items():`, which creates an
\* iterator over the live dict and remembers the dict's size
GetSignalStatusBegin ==
    /\ ReaderAtRest
    /\ reader' = [ReaderIdle EXCEPT !.pc = "iterating", !.size = Cardinality(active_signals)]
    /\ last' = Op("get_signal_status", "-", FALSE, {}, {}, FALSE)
    /\ UNCHANGED <<now, boot, engineVars, schedVars, ioVars, monVars>>

\* one next() of the dict iterator and the loop body: RuntimeError when the dict's size
\* is not the remembered one, else the next entry is copied into active_signals_info
GetSignalStatusNext ==
    /\ reader.pc = "iterating"
    /\ IF Cardinality(active_signals) # reader.size
       THEN reader' = [reader EXCEPT !.pc = "failed"]
       ELSE IF \E e \in active_signals : e.signal_type \notin reader.visited
            THEN \E e \in active_signals :
                    /\ e.signal_type \notin reader.visited
                    /\ reader' = [reader EXCEPT !.visited = @ \cup {e.signal_type},
                                               !.info = DictPut(@, e)]
            ELSE reader' = [reader EXCEPT !.pc = "counting"]
    /\ last' = Op("get_signal_status", "-", FALSE, {}, {}, TRUE)
    /\ UNCHANGED <<now, boot, engineVars, schedVars, ioVars, monVars>>

\* the return statement: 'active_signals_count': len(self.active_signals)
GetSignalStatusReturn ==
    /\ reader.pc = "counting"
    /\ reader' = [reader EXCEPT !.pc = "done", !.count = Cardinality(active_signals)]
    /\ last' = Op("get_signal_status", "-", TRUE, {}, {}, TRUE)
    /\ UNCHANGED <<now, boot, engineVars, schedVars, ioVars, monVars>>

\* the engine of a process whose market has closed, or whose generation is disabled,
\* queried while entries are tracked and cleared
InitReader ==
    /\ boot = At(0, 15, 3)
    /\ now = boot
    /\ config \in {BaseConfig, [BaseConfig EXCEPT !.enabled = FALSE]}
    /\ sched_config = [pre_market_fetch |-> FALSE, post_market_fetch |-> FALSE]
    /\ SchedulerInit
    /\ ReaderInit
    /\ EngineInit
    /\ MonitorInit
    /\ IoInit

NextReader ==
    \/ Tick
    \/ \E k \in Kinds, v \in ValidityChoices : track_active_signal(k, v)
    \/ clear_expired_signals
    \/ \E s \in Snapshots : generate_signals(s)
    \/ get_active_signals
    \/ GetSignalStatusBegin
    \/ GetSignalStatusNext
    \/ GetSignalStatusReturn

SpecReader == InitReader /\ [][NextReader]_vars

\* the two expiry predicates of the engine, asked at every instant of an entry's life
InitExpiry ==
    /\ boot = At(0, 10, 0)
    /\ now = boot
    /\ config = BaseConfig
    /\ sched_config = [pre_market_fetch |-> FALSE, post_market_fetch |-> FALSE]
    /\ SchedulerInit
    /\ ReaderInit
    /\ EngineInit
    /\ MonitorInit
    /\ IoInit

NextExpiry ==
    \/ Tick
    \/ \E k \in Kinds, v \in ValidityChoices : track_active_signal(k, v)
    \/ clear_expired_signals
    \/ \E k \in Kinds : is_signal_active(k)
    \/ \E k \in Kinds : is_signal_expired(k)

SpecExpiry == InitExpiry /\ [][NextExpiry]_vars

----------------------------------------------------------------------------
(* MarketCalendar of the scheduler: AutomatedScheduler.is_market_open and   *)
(* should_fetch_data, evaluated at every instant of one week                *)

\* now.replace(hour=h, minute=m, second=0, microsecond=0)
ReplaceTime(t, tod) == t - TimeOfDay(t) + tod

\* the upper comparison is strict, so the closing instant is outside the window
is_market_open_half_open(t) ==
    IF Weekday(t) > 4 THEN FALSE
    ELSE ReplaceTime(t, market_start_time) <= t /\ t < ReplaceTime(t, market_end_time)

is_market_open(t) ==
    IF Weekday(t) > 4 THEN FALSE
    ELSE ReplaceTime(t, market_start_time) <= t /\ t <= ReplaceTime(t, market_end_time)

should_fetch_data(t, sc) ==
    IF is_market_open(t) THEN TRUE
    ELSE LET market_start == ReplaceTime(t, market_start_time)
             market_end == ReplaceTime(t, market_end_time)
         IN IF sc.pre_market_fetch /\ market_start - OneHour <= t /\ t < market_start
            THEN TRUE
            ELSE IF sc.post_market_fetch /\ market_end < t /\ t <= market_end + 2 * OneHour
                 THEN TRUE
                 ELSE FALSE

OneWeek == 7 * TicksPerDay

InitSched ==
    /\ boot = 0
    /\ now = boot
    /\ config = BaseConfig
    /\ sched_config \in SchedConfigs
    /\ SchedulerInit
    /\ ReaderInit
    /\ EngineInit
    /\ MonitorInit
    /\ IoInit

TickSched ==
    /\ now - boot < OneWeek
    /\ now' = now + 1
    /\ last' = Op("tick", "-", FALSE, {}, {}, FALSE)
    /\ UNCHANGED <<boot, engineVars, schedVars, readVars, ioVars, monVars>>

IsMarketOpenCall ==
    /\ last' = Op("is_market_open", "-", is_market_open(now), {}, {}, FALSE)
    /\ UNCHANGED <<now, boot, engineVars, schedVars, readVars, ioVars, monVars>>

ShouldFetchDataCall ==
    /\ last' = Op("should_fetch_data", "-", should_fetch_data(now, sched_config), {}, {}, FALSE)
    /\ UNCHANGED <<now, boot, engineVars, schedVars, readVars, ioVars, monVars>>

NextSched ==
    \/ TickSched
    \/ IsMarketOpenCall
    \/ ShouldFetchDataCall

SpecSched == InitSched /\ [][NextSched]_vars

----------------------------------------------------------------------------
(* One fetch cycle of the scheduler: AutomatedScheduler.fetch_all_data      *)

Sources == {"nifty", "option_chain"}

\* what fetch_nifty_data_with_retry / fetch_option_chain_with_retry does in one cycle
SourceOutcomes == {"True", "False", "raised"}

\* results[source]: True only when the retry wrapper returned True
Succeeded(nifty, option_chain) ==
    {src \in Sources : (src = "nifty" /\ nifty = "True")
                        \/ (src = "option_chain" /\ option_chain = "True")}

FailuresAfterAnySuccess(failures, ok) ==
    IF ok # {} THEN 0 ELSE failures + 1

\* the counter update at the end of fetch_all_data
FailuresAfter(failures, ok) ==
    IF "nifty" \in ok /\ "option_chain" \in ok THEN 0 ELSE failures + 1

FetchBootInstants == { At(0, 8, 0), At(0, 15, 1), At(5, 10, 0) }

InitFetch ==
    /\ boot \in FetchBootInstants
    /\ now = boot
    /\ config = BaseConfig
    /\ sched_config \in SchedConfigs
    /\ SchedulerInit
    /\ ReaderInit
    /\ EngineInit
    /\ MonitorInit
    /\ IoInit

\* last.candidates: the sources a fetch was attempted for; last.accepted: those that
\* returned True
fetch_all_data(nifty, option_chain) ==
    IF ~should_fetch_data(now, sched_config)
    THEN /\ last' = Op("fetch_all_data", "-", FALSE, {}, {}, FALSE)
         /\ UNCHANGED <<now, boot, engineVars, schedVars, readVars, ioVars, monVars>>
    ELSE \E ok \in {Succeeded(nifty, option_chain)} :
         \E failures \in {FailuresAfter(consecutive_failures, ok)} :
            /\ failures <= MaxFailures
            /\ consecutive_failures' = failures
            /\ last_successful_fetch' = IF ok = Sources THEN now ELSE last_successful_fetch
            /\ last' = [Op("fetch_all_data", "-", TRUE, {}, {}, ok = Sources)
                          EXCEPT !.candidates = Sources, !.accepted = ok]
            /\ UNCHANGED <<now, boot, engineVars, sched_config, readVars, ioVars, monVars>>

NextFetch ==
    \/ Tick
    \/ \E nifty \in SourceOutcomes, option_chain \in SourceOutcomes :
          fetch_all_data(nifty, option_chain)

SpecFetch == InitFetch /\ [][NextFetch]_vars

----------------------------------------------------------------------------
(* SignalMonitor: start(), stop() and the worker threads running            *)
(* _monitor_loop                                                            *)

\* min(60, monitoring_interval_seconds * 2)
ErrorSleepSecondsNotDoubled(cfg) == Min(60, cfg.monitoring_interval_seconds)

ErrorSleepSeconds(cfg) == Min(60, cfg.monitoring_interval_seconds * 2)

\* sleep_intervals = max(1, int(seconds))
SleepIntervals(seconds) == Max(1, seconds)

Alive(w) == wpc[w] \notin {"unborn", "done"}

InitMonitor ==
    /\ boot \in BootInstants
    /\ now = boot
    /\ config \in {BaseConfig, [BaseConfig EXCEPT !.enabled = FALSE]}
    /\ sched_config = [pre_market_fetch |-> FALSE, post_market_fetch |-> FALSE]
    /\ SchedulerInit
    /\ ReaderInit
    /\ EngineInit
    /\ MonitorInit
    /\ IoInit

\* SignalMonitor.start: the thread object created is the least unused worker
Start ==
    /\ main_pc = "idle"
    /\ IF running \/ ~config.enabled
       THEN /\ last' = Op("start", "-", FALSE, {}, {}, FALSE)
            /\ UNCHANGED <<running, monitor_thread, wpc>>
       ELSE /\ \E w \in Workers : wpc[w] = "unborn"
            /\ LET w == CHOOSE x \in Workers :
                           wpc[x] = "unborn" /\ \A y \in Workers : wpc[y] = "unborn" => x <= y
               IN /\ running' = TRUE
                  /\ monitor_thread' = w
                  /\ wpc' = [wpc EXCEPT ![w] = "loop"]
            /\ last' = Op("start", "-", TRUE, {}, {}, FALSE)
    /\ UNCHANGED <<now, boot, engineVars, schedVars, readVars, ioVars, main_pc, sleep_left, cycle_count, errors_count,
                   observed_stop>>

\* SignalMonitor.stop up to the join
Stop ==
    /\ main_pc = "idle"
    /\ IF ~running
       THEN /\ last' = Op("stop", "-", FALSE, {}, {}, FALSE)
            /\ UNCHANGED <<running, main_pc>>
       ELSE /\ running' = FALSE
            /\ main_pc' = IF monitor_thread # 0 /\ Alive(monitor_thread)
                          THEN "joining" ELSE "idle"
            /\ last' = Op("stop", "-", TRUE, {}, {}, FALSE)
    /\ UNCHANGED <<now, boot, engineVars, schedVars, readVars, ioVars, monitor_thread, wpc, sleep_left,
                   cycle_count, errors_count, observed_stop>>

\* monitor_thread.join(timeout=10) returns because the worker has exited
JoinReturn ==
    /\ main_pc = "joining"
    /\ wpc[monitor_thread] = "done"
    /\ main_pc' = "idle"
    /\ last' = Op("join", "-", TRUE, {}, {}, FALSE)
    /\ UNCHANGED <<now, boot, engineVars, schedVars, readVars, ioVars, running, monitor_thread, wpc, sleep_left,
                   cycle_count, errors_count, observed_stop>>

\* monitor_thread.join(timeout=10) times out while the worker is inside a slow cycle
JoinTimeout ==
    /\ main_pc = "joining"
    /\ wpc[monitor_thread] = "cycle"
    /\ main_pc' = "idle"
    /\ last' = Op("join", "-", FALSE, {}, {}, FALSE)
    /\ UNCHANGED <<now, boot, engineVars, schedVars, readVars, ioVars, running, monitor_thread, wpc, sleep_left,
                   cycle_count, errors_count, observed_stop>>

\* `while self.running:` and the first statements of the cycle
LoopCheck(w) ==
    /\ wpc[w] = "loop"
    /\ IF running
       THEN /\ cycle_count < MaxCycles
            /\ wpc' = [wpc EXCEPT ![w] = "cycle"]
            /\ cycle_count' = cycle_count + 1
       ELSE /\ wpc' = [wpc EXCEPT ![w] = "done"]
            /\ UNCHANGED cycle_count
    /\ last' = Op("loop", "-", running, {}, {}, FALSE)
    /\ UNCHANGED <<now, boot, engineVars, schedVars, readVars, ioVars, running, monitor_thread, main_pc,
                   sleep_left, errors_count, observed_stop>>

EnterSleep(w, seconds) ==
    /\ wpc' = [wpc EXCEPT ![w] = "sleep"]
    /\ sleep_left' = [sleep_left EXCEPT ![w] = SleepIntervals(seconds)]

\* the cycle finds the market closed and waits one interval
CycleClosed(w) ==
    /\ wpc[w] = "cycle"
    /\ config.market_hours_only /\ ~is_market_hours(config, now)
    /\ EnterSleep(w, config.monitoring_interval_seconds)
    /\ last' = Op("cycle_closed", "-", FALSE, {}, {}, FALSE)
    /\ UNCHANGED <<now, boot, engineVars, schedVars, readVars, ioVars, running, monitor_thread, main_pc,
                   cycle_count, errors_count, observed_stop>>

\* the cycle generates and sends its signals and then sleeps
\* sleep_time = max(0, interval - cycle_time); no sleep at all when it is 0
CycleDone(w, sleep_time) ==
    /\ wpc[w] = "cycle"
    /\ ~(config.market_hours_only /\ ~is_market_hours(config, now))
    /\ IF sleep_time > 0
       THEN EnterSleep(w, sleep_time)
       ELSE /\ wpc' = [wpc EXCEPT ![w] = "loop"]
            /\ UNCHANGED sleep_left
    /\ last' = Op("cycle_done", "-", sleep_time > 0, {}, {}, FALSE)
    /\ UNCHANGED <<now, boot, engineVars, schedVars, readVars, ioVars, running, monitor_thread, main_pc,
                   cycle_count, errors_count, observed_stop>>

\* an exception escapes the cycle body: `except Exception`
CycleError(w) ==
    /\ wpc[w] = "cycle"
    /\ errors_count < MaxErrors
    /\ errors_count' = errors_count + 1
    /\ EnterSleep(w, ErrorSleepSeconds(config))
    /\ last' = Op("cycle_error", "-", FALSE, {}, {}, FALSE)
    /\ UNCHANGED <<now, boot, engineVars, schedVars, readVars, ioVars, running, monitor_thread, main_pc,
                   cycle_count, observed_stop>>

\* one iteration of the loop of _safe_sleep
SleepStep(w) ==
    /\ wpc[w] = "sleep"
    /\ IF sleep_left[w] = 0 \/ ~running
       THEN /\ wpc' = [wpc EXCEPT ![w] = "loop"]
            /\ sleep_left' = [sleep_left EXCEPT ![w] = 0]
       ELSE /\ sleep_left' = [sleep_left EXCEPT ![w] = sleep_left[w] - 1]
            /\ UNCHANGED wpc
    /\ observed_stop' = IF sleep_left[w] > 0 /\ ~running
                        THEN observed_stop \cup {w} ELSE observed_stop
    /\ last' = Op("sleep", "-", running, {}, {}, FALSE)
    /\ UNCHANGED <<now, boot, engineVars, schedVars, readVars, ioVars, running, monitor_thread, main_pc,
                   cycle_count, errors_count>>

WorkerStep(w) ==
    \/ LoopCheck(w)
    \/ CycleClosed(w)
    \/ \E st \in 0..config.monitoring_interval_seconds : CycleDone(w, st)
    \/ CycleError(w)
    \/ SleepStep(w)

NextMonitor ==
    \/ Start
    \/ Stop
    \/ JoinReturn
    \/ JoinTimeout
    \/ \E w \in Workers : WorkerStep(w)

SpecMonitor == InitMonitor /\ [][NextMonitor]_vars

\* one worker that is never stopped, under short and long monitoring intervals
IntervalChoices ==
    {BaseConfig.monitoring_interval_seconds, 60, default_monitoring_interval_seconds}

InitErrorWait ==
    /\ boot \in {At(0, 8, 3), At(0, 10, 0)}
    /\ now = boot
    /\ config \in {[BaseConfig EXCEPT !.monitoring_interval_seconds = i] : i \in IntervalChoices}
    /\ sched_config = [pre_market_fetch |-> FALSE, post_market_fetch |-> FALSE]
    /\ SchedulerInit
    /\ ReaderInit
    /\ EngineInit
    /\ MonitorInit
    /\ IoInit

NextErrorWait ==
    \/ Start
    \/ \E w \in Workers : WorkerStep(w)

SpecErrorWait == InitErrorWait /\ [][NextErrorWait]_vars

----------------------------------------------------------------------------
(* The scorer as a function of the snapshot: _evaluate_ce_conditions and    *)
(* _evaluate_pe_conditions applied to every input of ScorerInputs           *)

RsiPairs == { <<45, 28>>, <<48, 45>>, <<60, 75>>, <<50, 50>>, <<31, 30>>, <<50, 30>>,
              <<70, 75>>, <<51, 30>> }

ScorerInputs ==
    { Snap(p, r[1], r[2], cc, pc, ct, 50000) :
        p \in {0, 50, 70, 71, 100, 130, 150, 300}, r \in RsiPairs,
        cc \in {-5, 5, 15, 20}, pc \in {-5, 20}, ct \in {5000, 50000} }

InitScorer ==
    /\ boot = At(0, 10, 0)
    /\ now = boot
    /\ config \in {BaseConfig, [BaseConfig EXCEPT !.confidence_threshold = 67],
                    [BaseConfig EXCEPT !.confidence_threshold = 50]}
    /\ sched_config = [pre_market_fetch |-> FALSE, post_market_fetch |-> FALSE]
    /\ SchedulerInit
    /\ ReaderInit
    /\ active_signals = {}
    /\ signal_history = <<>>
    /\ last_signals = [k \in Kinds |-> NoTime]
    /\ emitted = <<>>
    /\ cleared = {}
    /\ \E s \in ScorerInputs : last = [Op("init", "-", FALSE, {}, {}, FALSE) EXCEPT !.snapshot = s]
    /\ MonitorInit
    /\ IoInit

\* one call of _evaluate_ce_conditions (k = BUY_CE) or _evaluate_pe_conditions
\* (k = BUY_PE) on the snapshot
evaluate_conditions(k) ==
    /\ LET cand == Evaluate(k, active_signals, last_signals, last.snapshot, now, config)
       IN last' = [Op("evaluate_conditions", k, cand # {}, {}, {}, FALSE)
                     EXCEPT !.scored = TRUE, !.candidates = cand,
                            !.snapshot = last.snapshot]
    /\ UNCHANGED <<now, boot, engineVars, schedVars, readVars, ioVars, monVars>>

\* _analyze_market_conditions on the snapshot, followed by the confidence filter of
\* generate_signals: last.candidates are the candidates, last.signals those that pass
analyze_market_conditions ==
    /\ \E cands \in {Candidates(active_signals, last_signals, last.snapshot, now, config)} :
       \E valid \in {ValidSignals(cands, config)} :
          last' = [Op("analyze_market_conditions", "-", valid # {}, valid, {}, FALSE)
                     EXCEPT !.scored = TRUE, !.candidates = cands, !.accepted = valid,
                            !.snapshot = last.snapshot]
    /\ UNCHANGED <<now, boot, engineVars, schedVars, readVars, ioVars, monVars>>

NextScorer ==
    \/ \E k \in Kinds : evaluate_conditions(k)
    \/ analyze_market_conditions

SpecScorer == InitScorer /\ [][NextScorer]_vars

----------------------------------------------------------------------------
(* Start-up: SignalConfig() is constructed from the settings and the        *)
(* monitor then runs its cycles                                             *)

InitConfig ==
    /\ boot = 0
    /\ now = boot
    /\ config = BaseConfig
    /\ sched_config = [pre_market_fetch |-> FALSE, post_market_fetch |-> FALSE]
    /\ SchedulerInit
    /\ ReaderInit
    /\ EngineInit
    /\ MonitorInit
    /\ signals_sent = 0
    /\ settings \in LoadedSettings
    /\ signal_cfg = Unconstructed
    /\ retry = RetryIdle
    /\ telegram = TelegramIdle

\* SignalConfig.__init__
Construct ==
    /\ signal_cfg.state = "unconstructed"
    /\ signal_cfg' = load_signal_config(settings)
    /\ last' = Op("SignalConfig", "-", validate_config(settings), {}, {}, FALSE)
    /\ UNCHANGED <<now, boot, engineVars, schedVars, readVars, monVars, signals_sent, settings, retry,
                   telegram>>

\* SignalMonitor.start and one pass of _monitor_loop with the constructed object:
\* start refuses when signal generation is disabled, otherwise the cycle calls
\* generate_signals
RunCycle ==
    /\ signal_cfg.state = "constructed"
    /\ signal_cfg.cycles < MaxCycles
    /\ signal_cfg' = IF signal_cfg.attrs.enabled
                     THEN [signal_cfg EXCEPT !.cycles = @ + 1]
                     ELSE signal_cfg
    /\ last' = Op("cycle", "-", signal_cfg.attrs.enabled, {}, {}, FALSE)
    /\ UNCHANGED <<now, boot, engineVars, schedVars, readVars, monVars, signals_sent, settings, retry,
                   telegram>>

NextConfig ==
    \/ Construct
    \/ RunCycle

SpecConfig == InitConfig /\ [][NextConfig]_vars

----------------------------------------------------------------------------
(* One call of fetch_nifty_data_with_retry under every retry policy         *)

InitRetry ==
    /\ boot = 0
    /\ now = boot
    /\ config = BaseConfig
    /\ sched_config = [pre_market_fetch |-> FALSE, post_market_fetch |-> FALSE]
    /\ SchedulerInit
    /\ ReaderInit
    /\ EngineInit
    /\ MonitorInit
    /\ signals_sent = 0
    /\ settings = set_defaults
    /\ signal_cfg = Unconstructed
    /\ retry \in {[RetryIdle EXCEPT !.policy = p, !.pc = "loop"] : p \in RetryPolicies}
    /\ telegram = TelegramIdle

\* one iteration of `for attempt in range(max_retries)`
FetchNiftyAttempt(outcome) ==
    /\ retry.pc = "loop"
    /\ retry.attempt < retry.policy.max_retries
    /\ retry' =
         IF outcome = "data"
         THEN [retry EXCEPT !.calls = Append(@, outcome), !.result = TRUE, !.pc = "done"]
         ELSE [retry EXCEPT !.calls = Append(@, outcome),
                            !.sleeps = IF retry.attempt < retry.policy.max_retries - 1
                                       THEN Append(@, wait_time(retry.policy, retry.attempt))
                                       ELSE @,
                            !.attempt = @ + 1]
    /\ last' = Op("fetch_nifty_data", outcome, outcome = "data", {}, {}, FALSE)
    /\ UNCHANGED <<now, boot, engineVars, schedVars, readVars, monVars, signals_sent, settings,
                   signal_cfg, telegram>>

\* the loop is exhausted: `return False`
FetchNiftyExhausted ==
    /\ retry.pc = "loop"
    /\ retry.attempt >= retry.policy.max_retries
    /\ retry' = [retry EXCEPT !.result = FALSE, !.pc = "done"]
    /\ last' = Op("fetch_nifty_data_with_retry", "-", FALSE, {}, {}, FALSE)
    /\ UNCHANGED <<now, boot, engineVars, schedVars, readVars, monVars, signals_sent, settings,
                   signal_cfg, telegram>>

NextRetry ==
    \/ \E outcome \in FetchOutcomes : FetchNiftyAttempt(outcome)
    \/ FetchNiftyExhausted

SpecRetry == InitRetry /\ [][NextRetry]_vars

----------------------------------------------------------------------------
(* One call of send_telegram_message                                        *)

InitTelegram ==
    /\ boot = 0
    /\ now = boot
    /\ config = BaseConfig
    /\ sched_config = [pre_market_fetch |-> FALSE, post_market_fetch |-> FALSE]
    /\ SchedulerInit
    /\ ReaderInit
    /\ EngineInit
    /\ MonitorInit
    /\ signals_sent = 0
    /\ settings = set_defaults
    /\ signal_cfg = Unconstructed
    /\ retry = RetryIdle
    /\ telegram \in {[TelegramIdle EXCEPT !.max_retries = c.max_retries,
                                         !.retry_delay = c.retry_delay, !.pc = "loop"] :
                       c \in TelegramCalls}

\* one iteration of `for attempt in range(max_retries)`: the POST and the wait
TelegramAttempt(resp, header) ==
    /\ telegram.pc = "loop"
    /\ telegram.attempt < telegram.max_retries
    /\ resp # "429" => header = 0
    /\ telegram' =
         IF resp = "200"
         THEN [telegram EXCEPT !.posts = Append(@, resp), !.result = TRUE, !.pc = "done"]
         ELSE IF resp = "429"
         THEN [telegram EXCEPT !.posts = Append(@, resp),
                               !.sleeps = Append(@, retry_after(header, telegram.retry_delay)),
                               !.attempt = @ + 1]
         ELSE [telegram EXCEPT !.posts = Append(@, resp),
                               !.sleeps = IF telegram.attempt < telegram.max_retries - 1
                                          THEN Append(@, telegram_wait_time(telegram.retry_delay,
                                                                            telegram.attempt))
                                          ELSE @,
                               !.attempt = @ + 1]
    /\ last' = Op("requests.post", resp, resp = "200", {}, {}, FALSE)
    /\ UNCHANGED <<now, boot, engineVars, schedVars, readVars, monVars, signals_sent, settings,
                   signal_cfg, retry>>

\* the loop is exhausted: `return False`
TelegramExhausted ==
    /\ telegram.pc = "loop"
    /\ telegram.attempt >= telegram.max_retries
    /\ telegram' = [telegram EXCEPT !.result = FALSE, !.pc = "done"]
    /\ last' = Op("send_telegram_message", "-", FALSE, {}, {}, FALSE)
    /\ UNCHANGED <<now, boot, engineVars, schedVars, readVars, monVars, signals_sent, settings,
                   signal_cfg, retry>>

NextTelegram ==
    \/ \E resp \in Responses, header \in RetryAfterHeaders : TelegramAttempt(resp, header)
    \/ TelegramExhausted

SpecTelegram == InitTelegram /\ [][NextTelegram]_vars

----------------------------------------------------------------------------
(* Properties of the engine, checked under Spec *)

InTradingWindow(t) ==
    /\ Weekday(t) <= 4
    /\ market_start_time <= TimeOfDay(t)
    /\ TimeOfDay(t) <= market_end_time

Buffer == config.signal_expiry_buffer_seconds

\* C1: the active-signal table holds at most one entry per signal kind in every
\* reachable state, whatever sequence of track_active_signal, clear_expired_signals,
\* is_signal_active and generate_signals calls produced it.
C1_OneEntryPerKind ==
    \A k \in Kinds : Cardinality({e \in active_signals : e.signal_type = k}) <= 1

\* a track call has just replaced an existing entry while the other kind is present too
C1_Witness ==
    /\ last.op = "track_active_signal"
    /\ last.had
    /\ Keys(active_signals) = Kinds

\* C2 (as claimed): a track call for a kind whose entry has not yet expired is
\* rejected, i.e. it leaves that entry and its expiry_time in the table.
C2_TrackRejectedWhileLive ==
    [][ last'.op = "track_active_signal" =>
          \A e \in active_signals :
             (e.signal_type = last'.kind /\ now < e.expiry_time) => e \in active_signals' ]_vars

\* C2 (amended): track_active_signal never rejects, it installs a fresh entry stamped
\* now; the suppression is done by generate_signals in renewal mode, which leaves every
\* entry that is still inside expiry_time + buffer exactly as it is (so a kind is
\* accepted again only once now >= expiry_time + buffer).
C2_GenerateKeepsLiveEntry ==
    [][ /\ (last'.op = "generate_signals" /\ config.enable_signal_renewal) =>
              \A e \in active_signals :
                 now < e.expiry_time + Buffer => e \in active_signals'
        /\ last'.op = "track_active_signal" =>
              \E e \in active_signals' :
                 /\ e.signal_type = last'.kind
                 /\ e.generated_at = now'
                 /\ e.expiry_time = now' + e.validity_minutes ]_vars

\* a renewal-mode cycle in which the BUY_CE gate was closed by a live entry that is
\* already past its expiry_time but still inside the buffer
C2_Witness ==
    /\ last.op = "generate_signals"
    /\ config.enable_signal_renewal
    /\ "BUY_CE" \in last.gated
    /\ \E e \in active_signals : e.signal_type = "BUY_CE" /\ now >= e.expiry_time

RECURSIVE CountIn(_, _, _)
CountIn(h, lo, hi) ==
    IF h = <<>> THEN 0
    ELSE (IF lo < Head(h) /\ Head(h) <= hi THEN 1 ELSE 0) + CountIn(Tail(h), lo, hi)

\* C3: in every rolling one-hour window the number of signals generate_signals
\* returned with generation time inside the window is at most max_signals_per_hour.
C3_RateCap ==
    \A t \in boot..now : CountIn(emitted, t - OneHour, t) <= config.max_signals_per_hour

\* C4 (as claimed): is_signal_active(kind) returns true iff an entry of the kind
\* exists and now < expiry_time.
C4_ActiveIffBeforeExpiry ==
    last.op = "is_signal_active" =>
       (last.flag <=> \E e \in active_signals :
                         e.signal_type = last.kind /\ now < e.expiry_time)

\* C4 (amended): is_signal_active(kind) returns true iff an entry of the kind exists
\* and now < expiry_time + signal_expiry_buffer_seconds, with
\* expiry_time = generated_at + validity_minutes.
C4_ActiveIffBeforeBufferedExpiry ==
    /\ last.op = "is_signal_active" =>
          (last.flag <=> \E e \in active_signals :
                            e.signal_type = last.kind /\ now < e.expiry_time + Buffer)
    /\ \A e \in active_signals : e.expiry_time = e.generated_at + e.validity_minutes

\* is_signal_active answered true for an entry past its expiry_time, inside the buffer
C4_Witness ==
    /\ last.op = "is_signal_active"
    /\ last.flag
    /\ \E e \in active_signals : e.signal_type = last.kind /\ now >= e.expiry_time

\* C5: once a cleanup has removed the entry of a kind, the kind has no entry and
\* is_signal_active(kind) returns false until a track for that kind succeeds.
C5_ClearedStaysInactive ==
    \A k \in cleared :
       /\ k \notin Keys(active_signals)
       /\ (last.op = "is_signal_active" /\ last.kind = k) => ~last.flag

\* is_signal_active is asked about a kind whose entry an earlier cleanup removed
C5_Witness ==
    /\ last.op = "is_signal_active"
    /\ last.kind \in cleared
    /\ ~last.had
    /\ ~last.flag

\* C9: with market_hours_only enabled, generate_signals returns an empty list at
\* every instant outside the trading window (Saturday, Sunday, or a time of day
\* outside [start_time, end_time]).
C9_EmptyOutsideTradingWindow ==
    (last.op = "generate_signals" /\ config.market_hours_only /\ ~InTradingWindow(now))
       => last.signals = {}

----------------------------------------------------------------------------
(* Properties of the monitor, checked under SpecMonitor *)

\* C6: at most one monitor worker is inside a monitoring cycle at any time, over
\* every interleaving of start(), stop() and the workers' progress.
C6_SingleWorkerInCycle ==
    Cardinality({w \in Workers : wpc[w] = "cycle"}) <= 1

\* C7: after stop() has cleared the running flag the monitor loop terminates; in
\* particular a worker that has observed the cleared flag in its cadence sleep begins
\* no new cycle (no further generate_signals call).
C7_NoCycleAfterObservedStop ==
    [][ \A w \in observed_stop : wpc[w] # "cycle" => wpc'[w] # "cycle" ]_vars

----------------------------------------------------------------------------
(* Properties of the scheduler's calendar, checked under SpecSched *)

\* C8: should_fetch_data returns false at every Saturday or Sunday instant, whatever
\* the pre_market_fetch and post_market_fetch flags and the time of day.
C8_NoFetchOnWeekend ==
    (last.op = "should_fetch_data" /\ Weekday(now) > 4) => ~last.flag

\* C10: is_market_open returns false on Saturday and Sunday and, on a weekday, true
\* iff start_time <= time of day <= end_time, both ends included.
C10_MarketOpenClosedInterval ==
    last.op = "is_market_open" =>
       (last.flag <=> InTradingWindow(now))

\* is_market_open answered true at exactly end_time of a weekday
C10_Witness ==
    /\ last.op = "is_market_open"
    /\ Weekday(now) <= 4
    /\ TimeOfDay(now) = market_end_time
    /\ last.flag

----------------------------------------------------------------------------
(* Properties of the monitor's cycle, checked under SpecCycle *)

\* C12: a signal accepted by generate_signals is tracked as active and recorded in
\* the emission history whatever save_trading_signal does (stores, returns False or
\* raises), and the delivery that follows, failed or not, leaves the active table and
\* the emission history as they are.
C12_TrackedWhateverCollaboratorsDo ==
    [][ /\ last'.op = "generate_signals" =>
              \A c \in last'.accepted :
                 /\ \E e \in active_signals' :
                       /\ e.signal_type = c.signal_type
                       /\ e.generated_at = c.generated_at
                       /\ e.expiry_time = c.generated_at + c.validity_minutes
                 /\ last_signals'[c.signal_type] = c.generated_at
                 /\ CountIn(signal_history', c.generated_at - 1, c.generated_at)
                       >= Cardinality(last'.accepted)
        /\ last'.op = "process_signals" =>
              UNCHANGED <<active_signals, signal_history, last_signals>> ]_vars

\* the save of an accepted signal raised and its delivery then failed, and the signal
\* is in the active table all the same
C12_Witness ==
    /\ last.op = "process_signals"
    /\ last.save = "raised"
    /\ ~last.flag
    /\ last.accepted # {}
    /\ \A c \in last.accepted :
          \E e \in active_signals :
             e.signal_type = c.signal_type /\ e.generated_at = c.generated_at

----------------------------------------------------------------------------
(* Properties of the scorer, checked under SpecScorer *)

Positive(c) == {f \in {"pcr", "rsi", "oi"} : c[f] > 0}

\* C15: every candidate produced by _evaluate_ce_conditions / _evaluate_pe_conditions,
\* and hence every signal generate_signals returns, has at least 2 of its 3
\* sub-scores strictly positive, for every snapshot.
C15_TwoOfThree ==
    \A c \in last.candidates \cup last.signals : Cardinality(Positive(c.components)) >= 2

\* a candidate with exactly two positive sub-scores
C15_Witness ==
    /\ last.op = "evaluate_conditions"
    /\ \E c \in last.candidates : Cardinality(Positive(c.components)) = 2

\* C16: every sub-score of a signal is in [0,1], confidence_score is the arithmetic
\* mean of the three sub-scores (so in [0,1]), and signal_strength is HIGH iff
\* confidence >= 0.8, MEDIUM iff 0.6 <= confidence < 0.8, LOW iff confidence < 0.6.
C16_ConfidenceAndStrength ==
    \A c \in last.candidates \cup last.signals :
       /\ \A f \in {"pcr", "rsi", "oi"} : 0 <= c.components[f] /\ c.components[f] <= ScoreDen
       /\ c.confidence_sum = c.components.pcr + c.components.rsi + c.components.oi
       /\ 0 <= c.confidence_sum /\ c.confidence_sum <= 3 * ScoreDen
       /\ c.signal_strength = "HIGH" <=> 10 * c.confidence_sum >= 8 * 3 * ScoreDen
       /\ c.signal_strength = "MEDIUM" <=>
             (6 * 3 * ScoreDen <= 10 * c.confidence_sum
                /\ 10 * c.confidence_sum < 8 * 3 * ScoreDen)
       /\ c.signal_strength = "LOW" <=> 10 * c.confidence_sum < 6 * 3 * ScoreDen

\* a MEDIUM candidate whose confidence lies between 0.7 and 0.8
C16_Witness ==
    /\ last.op = "evaluate_conditions"
    /\ \E c \in last.candidates :
          /\ c.signal_strength = "MEDIUM"
          /\ 10 * c.confidence_sum >= 7 * 3 * ScoreDen

\* the snapshot PCR = 0.5, RSI 45 -> 48, CE OI change +5% with CE OI 50,000
IsScenario8(s) ==
    /\ s.pcr = 50
    /\ s.rsi_prev = 45 /\ s.rsi_cur = 48
    /\ s.ce_oi_change_pct = 5 /\ s.ce_oi_total = 50000

\* C17 (as claimed): for that snapshot the BUY_CE candidate has flow 1.0, momentum
\* 0.6, participation 0.5, confidence mean(1.0, 0.6, 0.5) = 0.7 and strength MEDIUM.
C17_Scenario8AsClaimed ==
    (last.op = "evaluate_conditions" /\ last.kind = "BUY_CE" /\ IsScenario8(last.snapshot))
       => \E c \in last.candidates :
             /\ c.signal_type = "BUY_CE"
             /\ c.components.pcr = ScoreDen
             /\ 10 * c.components.rsi = 6 * ScoreDen
             /\ 2 * c.components.oi = ScoreDen
             /\ 10 * c.confidence_sum = 7 * 3 * ScoreDen
             /\ c.signal_strength = "MEDIUM"

\* C17 (amended): for that snapshot the BUY_CE candidate has flow
\* min(1, 0.5 + (0.7 - 0.5)/0.7) = 11/14, momentum 0.6, participation 0.5, confidence
\* mean(11/14, 0.6, 0.5) = 22/35 and strength MEDIUM.
C17_Scenario8 ==
    (last.op = "evaluate_conditions" /\ last.kind = "BUY_CE" /\ IsScenario8(last.snapshot))
       => \E c \in last.candidates :
             /\ c.signal_type = "BUY_CE"
             /\ 14 * c.components.pcr = 11 * ScoreDen
             /\ 10 * c.components.rsi = 6 * ScoreDen
             /\ 2 * c.components.oi = ScoreDen
             /\ 35 * c.confidence_sum = 22 * 3 * ScoreDen
             /\ c.signal_strength = "MEDIUM"

\* _evaluate_ce_conditions has produced its candidate for that snapshot
C17_Witness ==
    /\ last.op = "evaluate_conditions"
    /\ last.kind = "BUY_CE"
    /\ IsScenario8(last.snapshot)
    /\ last.candidates # {}

----------------------------------------------------------------------------
(* Properties of the two gates and of the cleanup, checked under Spec *)

\* C18: in renewal mode generate_signals never accepts a candidate of a kind that has
\* an entry in the active table when the gate is evaluated (after the cycle's cleanup),
\* so two consecutively accepted signals of one kind are generated at least
\* validity_minutes + signal_expiry_buffer_seconds apart.
C18_RenewalGate ==
    [][ (last'.op = "generate_signals" /\ config.enable_signal_renewal) =>
          \A c \in last'.accepted :
             /\ ~\E e \in active_signals :
                   e.signal_type = c.signal_type /\ now < e.expiry_time + Buffer
             /\ last_signals[c.signal_type] # NoTime =>
                   now - last_signals[c.signal_type] >= c.validity_minutes + Buffer ]_vars

\* a renewal-mode cycle accepts BUY_CE after earlier emissions while BUY_PE is
\* suppressed by its live entry
C18_Witness ==
    /\ last.op = "generate_signals"
    /\ config.enable_signal_renewal
    /\ \E c \in last.signals : c.signal_type = "BUY_CE"
    /\ "BUY_PE" \in last.gated
    /\ Len(emitted) >= 2
    /\ \E e \in active_signals : e.signal_type = "BUY_PE" /\ e.generated_at < now

\* C19: in cooldown mode a candidate of a kind is produced only if the kind was never
\* emitted or its last emission is at least signal_cooldown_minutes old, and the
\* active table never closes the gate; in renewal mode the gate is closed by a live
\* entry only, never by the last-emission times.
C19_GatesExclusive ==
    [][ (last'.op = "generate_signals" /\ last'.scored) =>
          /\ ~config.enable_signal_renewal =>
                /\ \A c \in last'.candidates :
                      \/ last_signals[c.signal_type] = NoTime
                      \/ now - last_signals[c.signal_type] >= config.signal_cooldown_minutes
                /\ last'.gated =
                      {k \in Kinds : /\ last_signals[k] # NoTime
                                     /\ now - last_signals[k] < config.signal_cooldown_minutes}
          /\ config.enable_signal_renewal =>
                last'.gated =
                   {k \in Kinds : \E e \in active_signals :
                                     e.signal_type = k /\ now < e.expiry_time + Buffer} ]_vars

\* a cooldown-mode cycle: BUY_CE is held back by its last emission while BUY_PE, which
\* has a live entry in the active table, is not
C19_Witness ==
    /\ last.op = "generate_signals"
    /\ last.scored
    /\ ~config.enable_signal_renewal
    /\ last.gated = {"BUY_CE"}
    /\ ~\E c \in last.signals : c.signal_type = "BUY_PE"
    /\ \E e \in active_signals : e.signal_type = "BUY_PE" /\ now < e.expiry_time

\* C20: clear_expired_signals executed at time now removes exactly the entries with
\* now >= expiry_time + signal_expiry_buffer_seconds and leaves every other entry and
\* its fields unchanged.
C20_ClearRemovesExactlyExpired ==
    [][ last'.op = "clear_expired_signals" =>
          active_signals' = {e \in active_signals : ~(now >= e.expiry_time + Buffer)} ]_vars

\* a cleanup has removed an expired entry and kept the entry of the other kind
C20_Witness ==
    /\ last.op = "clear_expired_signals"
    /\ last.had
    /\ active_signals # {}

----------------------------------------------------------------------------
(* Properties of start-up, checked under SpecConfig *)

\* C11: settings that violate _validate_config (e.g. pcr_buy_ce_max >= pcr_buy_pe_min)
\* are fatal at startup: constructing SignalConfig raises and no signal-generation
\* cycle ever runs after such settings were loaded.
C11_InvalidConfigIsFatal ==
    (signal_cfg.state # "unconstructed" /\ ~validate_config(settings))
       => (signal_cfg.state = "raised" /\ signal_cfg.cycles = 0)

----------------------------------------------------------------------------
(* Properties of the retry loops, checked under SpecRetry and SpecTelegram *)

\* C13: fetch_nifty_data_with_retry with max_retries = N invokes the fetch until its
\* first success or N failures; it returns success iff some attempt succeeded, no
\* attempt follows a success, and after failed attempt i (from 0) it sleeps
\* initial_delay * backoff^i, except after the last of the N attempts.
C13_RetryUntilFirstSuccess ==
    LET N == retry.policy.max_retries
        calls == retry.calls
        sleeps == retry.sleeps
    IN retry.pc # "idle" =>
         /\ Len(calls) <= N
         /\ \A i \in 1..Len(calls) :
               calls[i] = "data" => (i = Len(calls) /\ retry.pc = "done")
         /\ retry.pc = "done" =>
               /\ retry.result <=> \E i \in 1..Len(calls) : calls[i] = "data"
               /\ ~retry.result => Len(calls) = N
         /\ Len(sleeps) = Cardinality({i \in 1..Len(calls) : calls[i] # "data" /\ i < N})
         /\ \A j \in 1..Len(sleeps) :
               sleeps[j] = retry.policy.initial_delay
                             * Pow(retry.policy.backoff_multiplier, j - 1)

\* fail, fail, succeed with N = 3: success after sleeping initial_delay and then
\* initial_delay * backoff
C13_Witness ==
    /\ retry.pc = "done"
    /\ retry.policy.max_retries = 3
    /\ retry.calls = <<"exception", "None", "data">>
    /\ retry.result
    /\ retry.sleeps = <<retry.policy.initial_delay,
                        retry.policy.initial_delay * retry.policy.backoff_multiplier>>

\* C14: send_telegram_message with max_retries = N, when every attempt fails without
\* a 429 (other status, connection error or timeout), makes exactly N POSTs, sleeps
\* N-1 times with retry_delay * 2^i after attempt i (none after the last) and returns
\* False; it returns True at the first 200 response and makes no attempt after it.
C14_TelegramBackoff ==
    LET N == telegram.max_retries
        posts == telegram.posts
        sleeps == telegram.sleeps
    IN telegram.pc # "idle" =>
         /\ (telegram.pc = "done"
               /\ \A i \in 1..Len(posts) : posts[i] \in {"500", "ConnectionError", "Timeout"})
            => /\ Len(posts) = N
               /\ Len(sleeps) = Max(N - 1, 0)
               /\ \A j \in 1..Len(sleeps) : sleeps[j] = telegram.retry_delay * Pow(2, j - 1)
               /\ ~telegram.result
         /\ \A i \in 1..Len(posts) :
               posts[i] = "200" => (i = Len(posts) /\ telegram.pc = "done" /\ telegram.result)
         /\ (telegram.pc = "done" /\ telegram.result) =>
               (posts # <<>> /\ posts[Len(posts)] = "200")

\* three failed POSTs with max_retries = 3: two sleeps, retry_delay and 2 * retry_delay
C14_Witness ==
    /\ telegram.pc = "done"
    /\ telegram.max_retries = 3
    /\ telegram.posts = <<"500", "ConnectionError", "Timeout">>
    /\ telegram.sleeps = <<telegram.retry_delay, 2 * telegram.retry_delay>>
    /\ ~telegram.result

----------------------------------------------------------------------------
(* Fetch cycles of the scheduler                                            *)

\* C21: a fetch_all_data cycle inside the fetch window attempts both sources and leaves
\* consecutive_failures at 0 when both succeeded and at one more than before otherwise;
\* a cycle outside the window attempts no fetch and leaves consecutive_failures and
\* last_successful_fetch as they were.
C21_FailureCounter ==
    [][ last'.op = "fetch_all_data" =>
          IF should_fetch_data(now, sched_config)
          THEN /\ last'.candidates = Sources
               /\ consecutive_failures' =
                      IF last'.accepted = Sources THEN 0 ELSE consecutive_failures + 1
          ELSE /\ last'.candidates = {}
               /\ UNCHANGED <<consecutive_failures, last_successful_fetch>> ]_vars

C21_Witness ==
    /\ last.op = "fetch_all_data"
    /\ last.accepted = {"nifty"}
    /\ consecutive_failures >= 2
    /\ last_successful_fetch # NoTime

----------------------------------------------------------------------------
(* The error branch of the monitor loop                                     *)

----------------------------------------------------------------------------
(* Status queries against the worker's mutations                            *)

\* C23: a status query made while the worker tracks and clears entries never fails and
\* never reports a count that differs from the entries it lists.
C23_ReadsAreSnapshots ==
    /\ reader.pc # "failed"
    /\ reader.pc = "done" => reader.count = Cardinality(reader.info)

----------------------------------------------------------------------------
(* What one generate_signals cycle returns                                  *)

AtOrAboveThreshold(c) == 100 * c.confidence_sum >= config.confidence_threshold * 3 * ScoreDen

\* C24: in a generate_signals cycle the signals returned are exactly the candidates whose
\* confidence is at or above the threshold; each is tracked in the active table with
\* this cycle's timestamp and appended once to the emission history, no entry of another
\* kind is touched, and nothing is persisted when no candidate passes.
C24_ReturnedAreTrackedAndRecorded ==
    [][ (last'.op = "generate_signals" /\ last'.scored) =>
          /\ \A c \in last'.signals : AtOrAboveThreshold(c)
          /\ last'.signals = {c \in last'.candidates : AtOrAboveThreshold(c)}
          /\ \A c \in last'.signals :
                \E e \in active_signals' :
                    /\ e.signal_type = c.signal_type
                    /\ e.generated_at = now
          /\ \A e \in active_signals' :
                \/ e \in active_signals
                \/ \E c \in last'.signals : c.signal_type = e.signal_type
          /\ CountIn(signal_history', now - 1, now)
                = CountIn(signal_history, now - 1, now) + Cardinality(last'.signals)
          /\ Len(emitted') = Len(emitted) + Cardinality(last'.signals)
          /\ last'.signals = {} => last'.save = "-" ]_vars

\* a threshold of 0.7 rejected the candidates of an earlier cycle and a later cycle
\* returned and tracked a signal
C24_Witness ==
    /\ last.op = "generate_signals"
    /\ config.confidence_threshold = 70
    /\ last.signals # {}
    /\ \A c \in last.signals :
          \E e \in active_signals : e.signal_type = c.signal_type /\ e.generated_at = now
    /\ Len(emitted) >= 2

OutsideMarketHours ==
    /\ config.market_hours_only
    /\ ~(market_start_time <= TimeOfDay(now) /\ TimeOfDay(now) <= market_end_time)

----------------------------------------------------------------------------
(* The two expiry predicates and the entries a query reports                *)

\* C26: at every instant and for every kind exactly one of is_signal_active(kind) and
\* is_signal_expired(kind) holds.
C26_ExactlyOneOfActiveAndExpired ==
    \A k \in Kinds :
        IsSignalActiveRet(active_signals, k, now, config)
            # IsSignalExpiredRet(active_signals, k, now)

InsideBufferWindow(e) == now < e.expiry_time + config.signal_expiry_buffer_seconds

\* C27: every entry a get_active_signals call returns, and every entry counted in the
\* active_signals_count of a get_signal_status call, is inside its buffer window at the
\* instant of the call.
C27_QueriesReportOnlyLiveEntries ==
    [][ /\ last'.op = "get_active_signals" => \A e \in reader'.info : InsideBufferWindow(e)
        /\ (last'.op = "get_signal_status" /\ reader'.pc = "done") =>
              reader'.count = Cardinality({e \in active_signals : InsideBufferWindow(e)})
      ]_vars

----------------------------------------------------------------------------
(* Opposite directions in one cycle                                         *)

AllThree == {"pcr", "rsi", "oi"}

\* C28: for every snapshot the flow sub-scores of the BUY_CE and the BUY_PE evaluation are
\* never both positive, so the two never both have all three sub-scores positive; and
\* with a confidence threshold above 2/3 at most one signal passes the filter.
C28_AtMostOneDirection ==
    /\ ~(CEComponents(last.snapshot).pcr > 0 /\ PEComponents(last.snapshot).pcr > 0)
    /\ ~(Positive(CEComponents(last.snapshot)) = AllThree
           /\ Positive(PEComponents(last.snapshot)) = AllThree)
    /\ (last.op = "analyze_market_conditions" /\ 3 * config.confidence_threshold > 200) =>
          Cardinality(last.signals) <= 1

\* both directions produced a candidate and a threshold above 2/3 passed neither
C28_Witness ==
    /\ last.op = "analyze_market_conditions"
    /\ 3 * config.confidence_threshold > 200
    /\ Cardinality(last.candidates) = 2
    /\ last.signals = {}

----------------------------------------------------------------------------
(* The wait after a failed cycle against the monitoring interval            *)

\* C29: the wait a worker enters after a cycle that raised is at least
\* monitoring_interval_seconds, for every configured interval.
C29_ErrorWaitAtLeastInterval ==
    [][ \A w \in Workers :
          (last'.op = "cycle_error" /\ wpc[w] = "cycle" /\ wpc'[w] = "sleep") =>
              sleep_left'[w] >= config.monitoring_interval_seconds ]_vars

----------------------------------------------------------------------------
(* The configuration in effect                                              *)

\* C30: the attributes of a constructed SignalConfig satisfy every validation
\* constraint, whether they are the loaded settings or the substituted defaults.
C30_ConstructedConfigIsValid ==
    signal_cfg.state = "constructed" =>
        LET a == signal_cfg.attrs
        IN /\ a.pcr_buy_ce_max < a.pcr_buy_pe_min
           /\ 0 <= a.rsi_oversold_max /\ a.rsi_oversold_max < a.rsi_oversold_recovery
           /\ a.rsi_oversold_recovery <= 100
           /\ 0 <= a.rsi_overbought_decline
           /\ a.rsi_overbought_decline < a.rsi_overbought_min
           /\ a.rsi_overbought_min <= 100
           /\ 0 < a.confidence_threshold /\ a.confidence_threshold <= 100
           /\ a.signal_cooldown_minutes >= 0
           /\ a.max_signals_per_hour > 0
           /\ (validate_config(settings) => a = settings)

\* settings that fail the validation were loaded, the defaults are in effect and a
\* cycle has run with them
C30_Witness ==
    /\ signal_cfg.state = "constructed"
    /\ ~validate_config(settings)
    /\ signal_cfg.used_defaults
    /\ signal_cfg.attrs = set_defaults
    /\ signal_cfg.cycles >= 1

====
